---- MODULE Spec2Model ----
(***************************************************************************)
(* DirectInferenceManager (scl-machine, inferenceModule/manager).          *)
(*                                                                         *)
(* One run of DirectInferenceManager::applyInference is modelled as a      *)
(* sequential process; pc is the position in the body of the function.     *)
(* The knowledge base is the part of sc-memory the function reads and      *)
(* writes: the members of the input structure, the priority tiers of the   *)
(* rule set, the facts the target template is searched in, and the         *)
(* satisfiability records (rule => model, marked by                        *)
(* nrel_satisfiable_formula with a positive or a negative arc).            *)
(*                                                                         *)
(* useRule evaluates a LogicExpression whose code is outside this file:    *)
(* in a run its boolean value and the facts it generates are chosen        *)
(* nondeterministically; ExprSpec models useRule alone with the evaluator  *)
(* (AND, OR, NOT, ATOM).  ChainSpec models                                 *)
(* createRulesQueuesListByPriority alone on any chain of tiers, SatSpec    *)
(* the two bookkeeping functions alone, FairPassSpec one pass of the while *)
(* loop alone.  The binding generator                                      *)
(* (TemplateManager::createTemplateParams) and the searcher                *)
(* (TemplateSearcher::searchTemplate) are external as well: the generator  *)
(* enumerates the sequence templateParams and the search for a binding b   *)
(* is non-empty iff the fact b is in the knowledge base.                   *)
(***************************************************************************)
EXTENDS Naturals, Sequences, FiniteSets

\* ------------------------------------------------------------- bounds
\* Rule nodes are 1..NumRules.
NumRules == 2
\* At most MaxTiers priority tiers in a rule set.
MaxTiers == 2
\* Facts (instances of the target template, one per binding) are 1..NumFacts.
NumFacts == 2
\* useRule is allowed to succeed only while at most MaxBacklog rules wait in
\* uncheckedRules and checkedRuleList together: the two containers then never
\* hold more than MaxBacklog + NumRules - 1 rules and the state space is finite
\* (no step of the program is ever blocked by this bound).
MaxBacklog == 2
\* Satisfiability records a pair may hold before a bookkeeping call (SatSpec).
MaxPrior == 2
\* createRulesQueuesListByPriority called alone (ChainSpec): the queues the
\* list is shown to hold; further pushes of a walk that does not end are not
\* shown.  MaxWalk exceeds MaxTiers, so the list of a walk that ends is whole.
MaxWalk == 3

Rules == 1..NumRules
Facts == 1..NumFacts

\* The empty ScAddr (ScAddr::IsValid() is false for it).
Invalid == "invalid"
\* InferenceKeynodes::knowledge_base_IMS, the default model.
knowledge_base_IMS == "knowledge_base_IMS"
Models == {"input_structure", knowledge_base_IMS}

VARIABLES
  pc,                    \* position in applyInference
  inputStructure,        \* argument: Invalid or the handle of a structure
  ruleSet,               \* argument: Invalid or the handle of a rule set
  inputNodes,            \* knowledge base: the nodes of the input structure
  kbTiers,               \* knowledge base: the tiers of the rule set, rrel_1 first
  keyless,               \* knowledge base: the rules without rrel_main_key_sc_element
  formula,               \* knowledge base: the formula under the key element of rule
  rrel_1,                \* knowledge base: the tier the rule set marks rrel_1 (0: none)
  nextFromSet,           \* knowledge base: nextFromSet[t], the tier after t (0: none)
  facts,                 \* knowledge base: the facts present
  sat,                   \* knowledge base: sat[r][m], the verdict records of (r, m)
  templateParams,        \* what createTemplateParams enumerates for the target
  argumentList,          \* local: vector<ScAddr> argumentList
  targetAchieved,        \* local: bool targetAchieved
  rulesQueuesByPriority, \* local: vector<queue<ScAddr>>
  checkedRuleList,       \* local: vector<ScAddr>
  uncheckedRules,        \* local: queue<ScAddr>
  rule,                  \* local: ScAddr rule (0 before the first assignment)
  model,                 \* local: ScAddr model
  isUsed,                \* local: bool isUsed
  ruleQueueIndex,        \* local: size_t ruleQueueIndex (0-based)
  solution,              \* what createSolution was called with: "none" before
  setOfRules,            \* local of createRulesQueuesListByPriority: ScAddr setOfRules
  rulesQueuesList,       \* local of createRulesQueuesListByPriority
  logicExpression,       \* local of useRule: the expression built for the rule
  result,                \* local of useRule: LogicFormulaResult result
  \* history variables (not read by the program)
  kb0,                   \* facts and sat when the run started
  lastCall,              \* the last bookkeeping call: clear or add, and its arguments
  ruleSetRead,           \* ruleSet.IsValid() or the tiers of the rule set were read
  attempted,             \* rules useRule was called for
  failedLast,            \* rules whose most recent useRule call returned false
  owed,                  \* rules that had failed when a later rule application
                         \* succeeded without achieving the target, and were
                         \* not attempted since their failure
  retried,               \* rules attempted again while they were owed
  anyUsed,               \* some useRule call returned true
  attemptLog,            \* the rules attempted, in order, while none was used
  succSinceLoad,         \* a non-final success happened since the last tier load
  lastCheck,             \* outcome of the last isTargetAchieved call
  exprBuilt,             \* the last useRule call built and computed an expression
  buildError             \* createRulesQueuesListByPriority raised std::runtime_error

\* the locals of createRulesQueuesListByPriority and of useRule, which change
\* only where the two functions are modelled step by step (ChainSpec, ExprSpec)
calleeVars == <<setOfRules, rulesQueuesList, logicExpression, result>>
\* what no step of a run changes: the arguments, the rule set and the input
\* structure in the base, the binding generator's answer, the initial snapshot
fixedVars == <<inputStructure, ruleSet, inputNodes, kbTiers, templateParams, kb0,
               keyless, formula, rrel_1, nextFromSet, calleeVars>>
\* the history of the rule attempts
attemptVars == <<attempted, failedLast, owed, retried, anyUsed, attemptLog,
                 exprBuilt>>
vars == <<pc, argumentList, targetAchieved, rulesQueuesByPriority,
          checkedRuleList, uncheckedRules, rule, model, isUsed, ruleQueueIndex,
          solution, facts, sat, lastCall, ruleSetRead, succSinceLoad, lastCheck,
          buildError, attemptVars, fixedVars>>

\* ------------------------------------------------------------ helpers
RECURSIVE Flatten(_)
Flatten(qs) == IF qs = <<>> THEN <<>> ELSE Head(qs) \o Flatten(Tail(qs))

Range(s) == {s[i] : i \in 1..Len(s)}

NoCall == [op |-> "none", rule |-> 0, model |-> Invalid, isSatisfiable |-> FALSE]

\* No expression built, no result computed.
NoExpression == [op |-> "none", fact |-> 0, args |-> <<>>]
NoResult == [value |-> FALSE, computed |-> FALSE]

\* ContainersUtils::addToQueue(vector, queue): push every element, in order.
addToQueue(vector, queue) == queue \o vector

\* createQueue(set): the nodes of the set, in the order the base yields them.
createQueue(set) == addToQueue(set, <<>>)

\* Mutant: the tiers pushed in descending order.
RulesQueuesListReversed(tiers) ==
  [i \in 1..Len(tiers) |-> createQueue(tiers[Len(tiers) + 1 - i])]
\* createRulesQueuesListByPriority: one queue per tier, following the chain
\* from the rrel_1 tier; the list is empty when the rule set has no rrel_1 tier.
createRulesQueuesListByPriority(tiers) ==
  [i \in 1..Len(tiers) |-> createQueue(tiers[i])]

\* TemplateSearcher::searchTemplate for one binding set: the matches found in
\* the knowledge base (the fact of the binding, if present).  A search only.
searchTemplate(binding, kbFacts) ==
  IF binding \in kbFacts THEN {binding} ELSE {}

\* Mutant: only the first binding set is searched.
IsTargetAchievedFirstOnly(params, kbFacts) ==
  params # <<>> /\ searchTemplate(Head(params), kbFacts) # {}
\* isTargetAchieved: the loop of lines 186-191 over the binding sets, in
\* order: true at the first one whose search is non-empty, false after the
\* last one.
RECURSIVE isTargetAchieved(_, _)
isTargetAchieved(params, kbFacts) ==
  IF params = <<>> THEN FALSE
  ELSE IF searchTemplate(Head(params), kbFacts) # {} THEN TRUE
  ELSE isTargetAchieved(Tail(params), kbFacts)

\* Mutant: a clear that erases nothing.
ClearMutant(s, r, m) == s
\* Mutant: a clear that erases the records of the rule for every model.
ClearAllModels(s, r, m) == [s EXCEPT ![r] = [x \in Models |-> <<>>]]
\* clearSatisfiabilityInformation: erase every record of (r, m).
clearSatisfiabilityInformation(s, r, m) ==
  [s EXCEPT ![r][m] = <<>>]

\* Mutant: an add without the clear of line 206.
AddMutant(s, r, m, isSatisfiable) ==
  [s EXCEPT ![r][m] = Append(@, isSatisfiable)]
\* addSatisfiabilityInformation: clear, then create one record with the verdict.
addSatisfiabilityInformation(s, r, m, isSatisfiable) ==
  LET cleared == clearSatisfiabilityInformation(s, r, m)
  IN  [cleared EXCEPT ![r][m] = Append(@, isSatisfiable)]

\* The outcomes of useRule(r, argumentList): the value of the rule's logic
\* expression and the knowledge base after the generation it performed.
\* Mutant: useRule without the test of line 138.
UseRuleIgnoresKey(r, kbFacts, backlog) ==
  {[value |-> v, facts |-> kbFacts \cup g, built |-> TRUE] :
     v \in {b \in BOOLEAN : b => backlog <= MaxBacklog}, g \in SUBSET Facts}
\* A rule without a main key element (lines 136-139) yields false and nothing
\* is built.
useRule(r, kbFacts, backlog) ==
  IF r \in keyless
    THEN {[value |-> FALSE, facts |-> kbFacts, built |-> FALSE]}
    ELSE {[value |-> v, facts |-> kbFacts \cup g, built |-> TRUE] :
            v \in {b \in BOOLEAN : b => backlog <= MaxBacklog},
            g \in SUBSET Facts}

\* ------------------------------------------------------- initial states
\* A rule set gives each rule one priority: a rule node belongs to one tier and
\* occurs once in it.  Rule handles are opaque and never compared by the
\* program, so the tiers are taken to list the rules 1..n in order: every way
\* of cutting <<1, ..., n>> into at most MaxTiers consecutive (possibly empty)
\* tiers.
Cuts(n, k) ==
  {c \in [1..(k + 1) -> 0..n] :
     /\ c[1] = 0
     /\ c[k + 1] = n
     /\ \A i \in 1..k : c[i] <= c[i + 1]}

TierLists ==
  {<<>>} \cup
  UNION {UNION {{[i \in 1..k |-> [j \in 1..(c[i + 1] - c[i]) |-> c[i] + j]] :
                   c \in Cuts(n, k)} : k \in 1..MaxTiers} : n \in 0..NumRules}

PriorRecords == {<<>>, <<TRUE>>, <<FALSE>>}

Init ==
  /\ pc = "start"
  /\ inputStructure \in {Invalid, "input_structure"}
  /\ inputNodes \in (IF inputStructure = Invalid THEN {<<>>} ELSE {<<>>, <<"a">>})
  /\ ruleSet \in {Invalid, "rule_set"}
  /\ kbTiers \in (IF ruleSet = Invalid THEN {<<>>} ELSE TierLists)
  /\ keyless \in SUBSET Range(Flatten(kbTiers))
  /\ formula = NoExpression
  /\ rrel_1 = (IF kbTiers = <<>> THEN 0 ELSE 1)
  /\ nextFromSet = [t \in 1..Len(kbTiers) |->
                      IF t < Len(kbTiers) THEN t + 1 ELSE 0]
  /\ facts \in SUBSET Facts
  /\ templateParams \in {[i \in 1..k |-> i] : k \in 0..NumFacts}
  /\ \E p \in PriorRecords : sat = [r \in Rules |-> [m \in Models |-> p]]
  /\ argumentList = <<>>
  /\ targetAchieved = FALSE
  /\ rulesQueuesByPriority = <<>>
  /\ checkedRuleList = <<>>
  /\ uncheckedRules = <<>>
  /\ rule = 0
  /\ model = Invalid
  /\ isUsed = FALSE
  /\ ruleQueueIndex = 0
  /\ solution = "none"
  /\ setOfRules = 0
  /\ rulesQueuesList = <<>>
  /\ logicExpression = NoExpression
  /\ result = NoResult
  /\ kb0 = [facts |-> facts, sat |-> sat]
  /\ lastCall = NoCall
  /\ ruleSetRead = FALSE
  /\ attempted = {}
  /\ failedLast = {}
  /\ owed = {}
  /\ retried = {}
  /\ anyUsed = FALSE
  /\ attemptLog = <<>>
  /\ succSinceLoad = FALSE
  /\ lastCheck = "none"
  /\ exprBuilt = FALSE
  /\ buildError = FALSE

createSolution(achieved) == IF achieved THEN "success" ELSE "failure"

\* ---------------------------------------------------- applyInference
\* Mutant: lines 32-47 without the return of lines 43-44.
CollectArgumentsNoReturn ==
  /\ pc = "start"
  /\ argumentList' = (IF inputStructure # Invalid THEN inputNodes
                                                  ELSE argumentList)
  /\ pc' = "check0"
  /\ UNCHANGED <<targetAchieved, rulesQueuesByPriority, checkedRuleList,
                 uncheckedRules, rule, model, isUsed, ruleQueueIndex, solution,
                 facts, sat, lastCall, ruleSetRead, succSinceLoad, lastCheck,
                 attemptVars, buildError, fixedVars>>
\* Lines 32-47: collect the nodes of a valid input structure; a valid
\* structure without nodes ends the run with a failure solution.
CollectArguments ==
  /\ pc = "start"
  /\ IF inputStructure # Invalid
       THEN /\ argumentList' = inputNodes
            /\ IF inputNodes = <<>>
                 THEN pc' = "done" /\ solution' = createSolution(FALSE)
                 ELSE pc' = "check0" /\ UNCHANGED solution
       ELSE pc' = "check0" /\ UNCHANGED <<argumentList, solution>>
  /\ UNCHANGED <<targetAchieved, rulesQueuesByPriority, checkedRuleList,
                 uncheckedRules, rule, model, isUsed, ruleQueueIndex, facts,
                 sat, lastCall, ruleSetRead, succSinceLoad, lastCheck,
                 attemptVars, buildError, fixedVars>>

\* Mutant: lines 49-53 entering the else branch whatever the check returns.
InitialTargetCheckNoSkip ==
  /\ pc = "check0"
  /\ targetAchieved' = isTargetAchieved(templateParams, facts)
  /\ lastCheck' = IF targetAchieved' THEN "true" ELSE "false"
  /\ pc' = "ruleset"
  /\ UNCHANGED <<argumentList, rulesQueuesByPriority, checkedRuleList,
                 uncheckedRules, rule, model, isUsed, ruleQueueIndex, solution,
                 facts, sat, lastCall, ruleSetRead, succSinceLoad,
                 attemptVars, buildError, fixedVars>>
\* Lines 49-53: the initial target check; an achieved target skips the rules.
InitialTargetCheck ==
  /\ pc = "check0"
  /\ targetAchieved' = isTargetAchieved(templateParams, facts)
  /\ lastCheck' = IF targetAchieved' THEN "true" ELSE "false"
  /\ pc' = IF targetAchieved' THEN "ret" ELSE "ruleset"
  /\ UNCHANGED <<argumentList, rulesQueuesByPriority, checkedRuleList,
                 uncheckedRules, rule, model, isUsed, ruleQueueIndex, solution,
                 facts, sat, lastCall, ruleSetRead, succSinceLoad,
                 attemptVars, buildError, fixedVars>>

\* Mutant: lines 55-59 without the return of line 58.
CheckRuleSetNoReturn ==
  /\ pc = "ruleset"
  /\ ruleSetRead' = TRUE
  /\ pc' = "build"
  /\ UNCHANGED <<argumentList, targetAchieved, rulesQueuesByPriority,
                 checkedRuleList, uncheckedRules, rule, model, isUsed,
                 ruleQueueIndex, solution, facts, sat, lastCall, succSinceLoad,
                 lastCheck, attemptVars, buildError, fixedVars>>
\* Lines 55-59: an invalid rule set ends the run.
CheckRuleSet ==
  /\ pc = "ruleset"
  /\ ruleSetRead' = TRUE
  /\ IF ruleSet = Invalid
       THEN pc' = "done" /\ solution' = createSolution(targetAchieved)
       ELSE pc' = "build" /\ UNCHANGED solution
  /\ UNCHANGED <<argumentList, targetAchieved, rulesQueuesByPriority,
                 checkedRuleList, uncheckedRules, rule, model, isUsed,
                 ruleQueueIndex, facts, sat, lastCall, succSinceLoad,
                 lastCheck, attemptVars, buildError, fixedVars>>

\* Lines 61-85: build the tier queues; no tier ends the run; otherwise set the
\* model and start the for loop at index 0.
BuildQueues ==
  /\ pc = "build"
  /\ rulesQueuesByPriority' = createRulesQueuesListByPriority(kbTiers)
  /\ IF rulesQueuesByPriority' = <<>>
       THEN /\ pc' = "done"
            /\ solution' = createSolution(targetAchieved)
            /\ UNCHANGED <<model, ruleQueueIndex, checkedRuleList>>
       ELSE /\ pc' = "for"
            /\ model' = (IF inputStructure # Invalid THEN inputStructure
                                                     ELSE knowledge_base_IMS)
            /\ ruleQueueIndex' = 0
            /\ checkedRuleList' = <<>>
            /\ UNCHANGED solution
  /\ UNCHANGED <<argumentList, targetAchieved, uncheckedRules, rule, isUsed,
                 facts, sat, lastCall, ruleSetRead, succSinceLoad, lastCheck,
                 attemptVars, buildError, fixedVars>>

\* Mutant: lines 61-70 without the catch clause: the error leaves applyInference.
BuildQueuesThrowsUncaught ==
  /\ pc = "build"
  /\ buildError' = TRUE
  /\ pc' = "raised"
  /\ UNCHANGED <<argumentList, targetAchieved, rulesQueuesByPriority,
                 checkedRuleList, uncheckedRules, rule, model, isUsed,
                 ruleQueueIndex, solution, facts, sat, lastCall, ruleSetRead,
                 succSinceLoad, lastCheck, attemptVars, fixedVars>>
\* Lines 61-70: a call into sc-memory made by createRulesQueuesListByPriority
\* raises std::runtime_error; rulesQueuesByPriority is not assigned, the catch
\* clause logs the error and returns createSolution(targetAchieved).
BuildQueuesThrows ==
  /\ pc = "build"
  /\ buildError' = TRUE
  /\ solution' = createSolution(targetAchieved)
  /\ pc' = "done"
  /\ UNCHANGED <<argumentList, targetAchieved, rulesQueuesByPriority,
                 checkedRuleList, uncheckedRules, rule, model, isUsed,
                 ruleQueueIndex, facts, sat, lastCall, ruleSetRead,
                 succSinceLoad, lastCheck, attemptVars, fixedVars>>

\* Mutant: lines 85-87 indexing the tiers from the last one.
ForEnterFromLast ==
  /\ pc = "for"
  /\ ruleQueueIndex < Len(rulesQueuesByPriority) /\ ~targetAchieved
  /\ uncheckedRules' =
       rulesQueuesByPriority[Len(rulesQueuesByPriority) - ruleQueueIndex]
  /\ succSinceLoad' = FALSE
  /\ pc' = "while"
  /\ UNCHANGED <<argumentList, targetAchieved, rulesQueuesByPriority,
                 checkedRuleList, rule, model, isUsed, ruleQueueIndex,
                 solution, facts, sat, lastCall, ruleSetRead, lastCheck,
                 attemptVars, buildError, fixedVars>>
\* Lines 85-87: the for condition holds; load the tier's queue.
ForEnter ==
  /\ pc = "for"
  /\ ruleQueueIndex < Len(rulesQueuesByPriority) /\ ~targetAchieved
  /\ uncheckedRules' = rulesQueuesByPriority[ruleQueueIndex + 1]
  /\ succSinceLoad' = FALSE
  /\ pc' = "while"
  /\ UNCHANGED <<argumentList, targetAchieved, rulesQueuesByPriority,
                 checkedRuleList, rule, model, isUsed, ruleQueueIndex,
                 solution, facts, sat, lastCall, ruleSetRead, lastCheck,
                 attemptVars, buildError, fixedVars>>

\* Line 85: the for condition fails; go to the return statement.
ForExit ==
  /\ pc = "for"
  /\ ~(ruleQueueIndex < Len(rulesQueuesByPriority) /\ ~targetAchieved)
  /\ pc' = "ret"
  /\ UNCHANGED <<argumentList, targetAchieved, rulesQueuesByPriority,
                 checkedRuleList, uncheckedRules, rule, model, isUsed,
                 ruleQueueIndex, solution, facts, sat, lastCall, ruleSetRead,
                 succSinceLoad, lastCheck, attemptVars, buildError, fixedVars>>

\* Mutant: the for statement starts again at tier 0 after a pass in which a
\* rule was used.
WhileExitRestart ==
  /\ pc = "while"
  /\ uncheckedRules = <<>>
  /\ ruleQueueIndex' = (IF succSinceLoad THEN 0 ELSE ruleQueueIndex + 1)
  /\ pc' = "for"
  /\ UNCHANGED <<argumentList, targetAchieved, rulesQueuesByPriority,
                 checkedRuleList, uncheckedRules, rule, model, isUsed,
                 solution, facts, sat, lastCall, ruleSetRead, succSinceLoad,
                 lastCheck, attemptVars, buildError, fixedVars>>
\* Lines 88 and 85: the queue is empty; the for statement increments the index.
WhileExit ==
  /\ pc = "while"
  /\ uncheckedRules = <<>>
  /\ ruleQueueIndex' = ruleQueueIndex + 1
  /\ pc' = "for"
  /\ UNCHANGED <<argumentList, targetAchieved, rulesQueuesByPriority,
                 checkedRuleList, uncheckedRules, rule, model, isUsed,
                 solution, facts, sat, lastCall, ruleSetRead, succSinceLoad,
                 lastCheck, attemptVars, buildError, fixedVars>>

\* Mutant: lines 88-90 without the clear of line 91.
TakeRuleNoClear ==
  /\ pc = "while"
  /\ uncheckedRules # <<>>
  /\ rule' = Head(uncheckedRules)
  /\ pc' = "use"
  /\ UNCHANGED <<argumentList, targetAchieved, rulesQueuesByPriority,
                 checkedRuleList, uncheckedRules, model, isUsed,
                 ruleQueueIndex, solution, facts, sat, lastCall, ruleSetRead,
                 succSinceLoad, lastCheck, attemptVars, buildError, fixedVars>>
\* Lines 88-92: take the front rule and clear its record for the model.
TakeRule ==
  /\ pc = "while"
  /\ uncheckedRules # <<>>
  /\ rule' = Head(uncheckedRules)
  /\ sat' = clearSatisfiabilityInformation(sat, rule', model)
  /\ lastCall' = [op |-> "clear", rule |-> rule', model |-> model,
                  isSatisfiable |-> FALSE]
  /\ pc' = "use"
  /\ UNCHANGED <<argumentList, targetAchieved, rulesQueuesByPriority,
                 checkedRuleList, uncheckedRules, model, isUsed,
                 ruleQueueIndex, solution, facts, ruleSetRead, succSinceLoad,
                 lastCheck, attemptVars, buildError, fixedVars>>

\* Lines 93-94 and 110: call useRule and branch on its value.
UseRule ==
  /\ pc = "use"
  /\ \E o \in useRule(rule, facts, Len(uncheckedRules) + Len(checkedRuleList)) :
       /\ isUsed' = o.value
       /\ facts' = o.facts
       /\ exprBuilt' = o.built
       /\ failedLast' = IF o.value THEN failedLast \ {rule}
                                   ELSE failedLast \cup {rule}
       /\ anyUsed' = (anyUsed \/ o.value)
       /\ attemptLog' = IF anyUsed' THEN <<>> ELSE Append(attemptLog, rule)
       /\ pc' = IF o.value THEN "used" ELSE "unused"
  /\ attempted' = attempted \cup {rule}
  /\ owed' = owed \ {rule}
  /\ retried' = retried \cup (owed \cap {rule})
  /\ UNCHANGED <<argumentList, targetAchieved, rulesQueuesByPriority,
                 checkedRuleList, uncheckedRules, rule, model, ruleQueueIndex,
                 solution, sat, lastCall, ruleSetRead, succSinceLoad,
                 lastCheck, buildError, fixedVars>>

\* Line 96: record the rule as satisfiable.
RecordSatisfiable ==
  /\ pc = "used"
  /\ sat' = addSatisfiabilityInformation(sat, rule, model, TRUE)
  /\ lastCall' = [op |-> "add", rule |-> rule, model |-> model,
                  isSatisfiable |-> TRUE]
  /\ pc' = "recheck"
  /\ UNCHANGED <<argumentList, targetAchieved, rulesQueuesByPriority,
                 checkedRuleList, uncheckedRules, rule, model, isUsed,
                 ruleQueueIndex, solution, facts, ruleSetRead, succSinceLoad,
                 lastCheck, attemptVars, buildError, fixedVars>>

\* Mutant: lines 97-102 without the break of line 101.
RecheckAchievedNoBreak ==
  /\ pc = "recheck"
  /\ isTargetAchieved(templateParams, facts)
  /\ targetAchieved' = TRUE
  /\ lastCheck' = "true"
  /\ pc' = "pop"
  /\ UNCHANGED <<argumentList, rulesQueuesByPriority, checkedRuleList,
                 uncheckedRules, rule, model, isUsed, ruleQueueIndex, solution,
                 facts, sat, lastCall, ruleSetRead, succSinceLoad, attemptVars,
                 buildError, fixedVars>>
\* Lines 97-102: the target check after a successful application returns
\* true: break out of the while loop; the for statement then increments the
\* index and tests its condition.
RecheckAchieved ==
  /\ pc = "recheck"
  /\ isTargetAchieved(templateParams, facts)
  /\ targetAchieved' = TRUE
  /\ lastCheck' = "true"
  /\ ruleQueueIndex' = ruleQueueIndex + 1
  /\ pc' = "for"
  /\ UNCHANGED <<argumentList, rulesQueuesByPriority, checkedRuleList,
                 uncheckedRules, rule, model, isUsed, solution, facts, sat,
                 lastCall, ruleSetRead, succSinceLoad, attemptVars,
                 buildError, fixedVars>>

\* Mutant: lines 97 and 103-108 without the addToQueue of line 105.
RecheckNotAchievedNoRequeue ==
  /\ pc = "recheck"
  /\ ~isTargetAchieved(templateParams, facts)
  /\ targetAchieved' = FALSE
  /\ lastCheck' = "false"
  /\ ruleQueueIndex' = 0
  /\ checkedRuleList' = <<>>
  /\ succSinceLoad' = TRUE
  /\ owed' = owed \cup failedLast
  /\ pc' = "pop"
  /\ UNCHANGED <<argumentList, rulesQueuesByPriority, uncheckedRules, rule,
                 model, isUsed, solution, facts, sat, lastCall, ruleSetRead,
                 attempted, failedLast, retried, anyUsed, attemptLog,
                 exprBuilt, buildError, fixedVars>>
\* Mutant: lines 97 and 103-108 without the clear of line 107.
RecheckNotAchievedNoClear ==
  /\ pc = "recheck"
  /\ ~isTargetAchieved(templateParams, facts)
  /\ targetAchieved' = FALSE
  /\ lastCheck' = "false"
  /\ uncheckedRules' = addToQueue(checkedRuleList, uncheckedRules)
  /\ ruleQueueIndex' = 0
  /\ succSinceLoad' = TRUE
  /\ owed' = owed \cup failedLast
  /\ pc' = "pop"
  /\ UNCHANGED <<argumentList, rulesQueuesByPriority, checkedRuleList, rule,
                 model, isUsed, solution, facts, sat, lastCall, ruleSetRead,
                 attempted, failedLast, retried, anyUsed, attemptLog,
                 exprBuilt, buildError, fixedVars>>
\* Lines 97 and 103-108: the target check returns false: append the failed
\* rules to the queue, reset the index to 0, clear the failed list.
RecheckNotAchieved ==
  /\ pc = "recheck"
  /\ ~isTargetAchieved(templateParams, facts)
  /\ targetAchieved' = FALSE
  /\ lastCheck' = "false"
  /\ uncheckedRules' = addToQueue(checkedRuleList, uncheckedRules)
  /\ ruleQueueIndex' = 0
  /\ checkedRuleList' = <<>>
  /\ succSinceLoad' = TRUE
  /\ owed' = owed \cup failedLast
  /\ pc' = "pop"
  /\ UNCHANGED <<argumentList, rulesQueuesByPriority, rule, model, isUsed,
                 solution, facts, sat, lastCall, ruleSetRead, attempted,
                 failedLast, retried, anyUsed, attemptLog, exprBuilt,
                 buildError, fixedVars>>

\* Lines 112-113: record the rule as unsatisfiable and remember it as failed.
RecordUnsatisfiable ==
  /\ pc = "unused"
  /\ sat' = addSatisfiabilityInformation(sat, rule, model, FALSE)
  /\ lastCall' = [op |-> "add", rule |-> rule, model |-> model,
                  isSatisfiable |-> FALSE]
  /\ checkedRuleList' = Append(checkedRuleList, rule)
  /\ pc' = "pop"
  /\ UNCHANGED <<argumentList, targetAchieved, rulesQueuesByPriority,
                 uncheckedRules, rule, model, isUsed, ruleQueueIndex, solution,
                 facts, ruleSetRead, succSinceLoad, lastCheck, attemptVars,
                 buildError, fixedVars>>

\* Line 116: pop the front of the queue.
PopRule ==
  /\ pc = "pop"
  /\ uncheckedRules' = Tail(uncheckedRules)
  /\ pc' = "while"
  /\ UNCHANGED <<argumentList, targetAchieved, rulesQueuesByPriority,
                 checkedRuleList, rule, model, isUsed, ruleQueueIndex,
                 solution, facts, sat, lastCall, ruleSetRead, succSinceLoad,
                 lastCheck, attemptVars, buildError, fixedVars>>

\* Line 121: return the solution built from targetAchieved.
Return ==
  /\ pc = "ret"
  /\ solution' = createSolution(targetAchieved)
  /\ pc' = "done"
  /\ UNCHANGED <<argumentList, targetAchieved, rulesQueuesByPriority,
                 checkedRuleList, uncheckedRules, rule, model, isUsed,
                 ruleQueueIndex, facts, sat, lastCall, ruleSetRead,
                 succSinceLoad, lastCheck, attemptVars, buildError, fixedVars>>

Next ==
  \/ CollectArguments
  \/ InitialTargetCheck
  \/ CheckRuleSet
  \/ BuildQueues
  \/ BuildQueuesThrows
  \/ ForEnter
  \/ ForExit
  \/ WhileExit
  \/ TakeRule
  \/ UseRule
  \/ RecordSatisfiable
  \/ RecheckAchieved
  \/ RecheckNotAchieved
  \/ RecordUnsatisfiable
  \/ PopRule
  \/ Return

Spec == Init /\ [][Next]_vars

\* The run is sequential and synchronous: the calling thread executes the next
\* statement whenever there is one.
FairSpec == Init /\ [][Next]_vars /\ WF_vars(Next)

\* The runs on a rule set of exactly one tier (of distinct rules).
InitSingleTier == Init /\ Len(kbTiers) = 1

FairSingleTierSpec == InitSingleTier /\ [][Next]_vars /\ WF_vars(Next)

\* ------------------------------------------- bookkeeping calls alone
\* clearSatisfiabilityInformation and addSatisfiabilityInformation called
\* directly, in any order and with any arguments, on a knowledge base in which
\* every pair holds up to MaxPrior records.
RECURSIVE SeqsUpTo(_, _)
SeqsUpTo(S, n) ==
  IF n = 0 THEN {<<>>}
  ELSE LET shorter == SeqsUpTo(S, n - 1)
       IN  shorter \cup {Append(q, x) : q \in shorter, x \in S}

InitSat ==
  /\ pc = "bookkeeping"
  /\ \E p \in SeqsUpTo(BOOLEAN, MaxPrior) :
       sat = [r \in Rules |-> [m \in Models |-> p]]
  /\ inputStructure = Invalid
  /\ inputNodes = <<>>
  /\ ruleSet = Invalid
  /\ kbTiers = <<>>
  /\ keyless = {}
  /\ formula = NoExpression
  /\ rrel_1 = 0
  /\ nextFromSet = <<>>
  /\ setOfRules = 0
  /\ rulesQueuesList = <<>>
  /\ logicExpression = NoExpression
  /\ result = NoResult
  /\ exprBuilt = FALSE
  /\ buildError = FALSE
  /\ facts = {}
  /\ templateParams = <<>>
  /\ argumentList = <<>>
  /\ targetAchieved = FALSE
  /\ rulesQueuesByPriority = <<>>
  /\ checkedRuleList = <<>>
  /\ uncheckedRules = <<>>
  /\ rule = 0
  /\ model = Invalid
  /\ isUsed = FALSE
  /\ ruleQueueIndex = 0
  /\ solution = "none"
  /\ kb0 = [facts |-> facts, sat |-> sat]
  /\ lastCall = NoCall
  /\ ruleSetRead = FALSE
  /\ attempted = {}
  /\ failedLast = {}
  /\ owed = {}
  /\ retried = {}
  /\ anyUsed = FALSE
  /\ attemptLog = <<>>
  /\ succSinceLoad = FALSE
  /\ lastCheck = "none"

CallClear ==
  /\ pc = "bookkeeping"
  /\ \E r \in Rules, m \in Models :
       /\ sat' = clearSatisfiabilityInformation(sat, r, m)
       /\ lastCall' = [op |-> "clear", rule |-> r, model |-> m,
                       isSatisfiable |-> FALSE]
  /\ UNCHANGED <<pc, argumentList, targetAchieved, rulesQueuesByPriority,
                 checkedRuleList, uncheckedRules, rule, model, isUsed,
                 ruleQueueIndex, solution, facts, ruleSetRead, succSinceLoad,
                 lastCheck, attemptVars, buildError, fixedVars>>

CallAdd ==
  /\ pc = "bookkeeping"
  /\ \E r \in Rules, m \in Models, isSatisfiable \in BOOLEAN :
       /\ sat' = addSatisfiabilityInformation(sat, r, m, isSatisfiable)
       /\ lastCall' = [op |-> "add", rule |-> r, model |-> m,
                       isSatisfiable |-> isSatisfiable]
  /\ UNCHANGED <<pc, argumentList, targetAchieved, rulesQueuesByPriority,
                 checkedRuleList, uncheckedRules, rule, model, isUsed,
                 ruleQueueIndex, solution, facts, ruleSetRead, succSinceLoad,
                 lastCheck, attemptVars, buildError, fixedVars>>

NextSat == CallClear \/ CallAdd

SatSpec == InitSat /\ [][NextSat]_vars

\* -------------------------- createRulesQueuesListByPriority called alone
\* The function walks the chain of tiers of a rule set: the tier marked rrel_1,
\* then the tier getNextFromSet yields for it, and so on until a call yields
\* the empty ScAddr.  The rule set is any chain over at most MaxTiers tier
\* nodes: rrel_1 may be absent and the next relation may lead anywhere, back
\* to an earlier tier included.
InitChain ==
  /\ pc = "chain"
  /\ ruleSet = "rule_set"
  /\ kbTiers \in TierLists
  /\ rrel_1 \in 0..Len(kbTiers)
  /\ nextFromSet \in [1..Len(kbTiers) -> 0..Len(kbTiers)]
  /\ keyless = {}
  /\ formula = NoExpression
  /\ inputStructure = Invalid
  /\ inputNodes = <<>>
  /\ facts = {}
  /\ templateParams = <<>>
  /\ sat = [r \in Rules |-> [m \in Models |-> <<>>]]
  /\ argumentList = <<>>
  /\ targetAchieved = FALSE
  /\ rulesQueuesByPriority = <<>>
  /\ checkedRuleList = <<>>
  /\ uncheckedRules = <<>>
  /\ rule = 0
  /\ model = Invalid
  /\ isUsed = FALSE
  /\ ruleQueueIndex = 0
  /\ solution = "none"
  /\ setOfRules = 0
  /\ rulesQueuesList = <<>>
  /\ logicExpression = NoExpression
  /\ result = NoResult
  /\ kb0 = [facts |-> facts, sat |-> sat]
  /\ lastCall = NoCall
  /\ ruleSetRead = FALSE
  /\ attempted = {}
  /\ failedLast = {}
  /\ owed = {}
  /\ retried = {}
  /\ anyUsed = FALSE
  /\ attemptLog = <<>>
  /\ succSinceLoad = FALSE
  /\ lastCheck = "none"
  /\ exprBuilt = FALSE
  /\ buildError = FALSE

\* what the steps of createRulesQueuesListByPriority leave alone
chainFrame == <<argumentList, targetAchieved, checkedRuleList, uncheckedRules,
                rule, model, isUsed, ruleQueueIndex, solution, facts, sat,
                lastCall, succSinceLoad, lastCheck, attemptVars,
                inputStructure, ruleSet, inputNodes, kbTiers, templateParams,
                kb0, keyless, formula, rrel_1, nextFromSet, logicExpression,
                result>>

\* Lines 153-157: an empty list, and the tier the rule set marks rrel_1.
ChainStart ==
  /\ pc = "chain"
  /\ rulesQueuesList' = <<>>
  /\ setOfRules' = rrel_1
  /\ ruleSetRead' = TRUE
  /\ pc' = "chain_while"
  /\ UNCHANGED <<rulesQueuesByPriority, buildError, chainFrame>>

\* Lines 158-162: setOfRules is valid: push the queue of the tier and take the
\* tier getNextFromSet yields.
ChainPush ==
  /\ pc = "chain_while"
  /\ setOfRules # 0
  /\ rulesQueuesList' =
       (IF Len(rulesQueuesList) < MaxWalk
          THEN Append(rulesQueuesList, createQueue(kbTiers[setOfRules]))
          ELSE rulesQueuesList)
  /\ setOfRules' = nextFromSet[setOfRules]
  /\ UNCHANGED <<pc, rulesQueuesByPriority, ruleSetRead, buildError,
                 chainFrame>>

\* Lines 158 and 164: setOfRules is not valid: the list is returned (and
\* assigned by the caller, line 64).
ChainReturn ==
  /\ pc = "chain_while"
  /\ setOfRules = 0
  /\ rulesQueuesByPriority' = rulesQueuesList
  /\ pc' = "chain_returned"
  /\ UNCHANGED <<setOfRules, rulesQueuesList, ruleSetRead, buildError,
                 chainFrame>>

\* A call into sc-memory (getAnyByOutRelation, createQueue, getNextFromSet)
\* raises std::runtime_error: the function is left without a list.  The
\* function itself has no throw statement.
ChainThrows ==
  /\ pc \in {"chain", "chain_while"}
  /\ buildError' = TRUE
  /\ pc' = "chain_error"
  /\ UNCHANGED <<setOfRules, rulesQueuesList, rulesQueuesByPriority,
                 ruleSetRead, chainFrame>>

NextChain == ChainStart \/ ChainPush \/ ChainReturn \/ ChainThrows

ChainSpec == InitChain /\ [][NextChain]_vars

\* ------------------------------------------------------ useRule alone
\* useRule with the LogicExpression it builds and computes.  The formula of a
\* rule is a tree over AND, OR, NOT and ATOM leaves; the sub-pattern of an ATOM
\* leaf is instantiated by one fact.  The formulas drawn are the atoms, the
\* negated atoms, the conjunctions and disjunctions of two of these, and the
\* negations of all of them.
Atom(f) == [op |-> "ATOM", fact |-> f, args |-> <<>>]
Not(e) == [op |-> "NOT", fact |-> 0, args |-> <<e>>]
And(a, b) == [op |-> "AND", fact |-> 0, args |-> <<a, b>>]
Or(a, b) == [op |-> "OR", fact |-> 0, args |-> <<a, b>>]

Atoms == {Atom(f) : f \in Facts}
Literals == Atoms \cup {Not(a) : a \in Atoms}
Clauses ==
  Literals \cup {And(a, b) : a, b \in Literals}
           \cup {Or(a, b) : a, b \in Literals}
Formulas == Clauses \cup {Not(c) : c \in Clauses}

\* Mutant: a NOT node that computes its child in the mode it was given.
RECURSIVE ComputeNotGenerates(_, _, _)
ComputeNotGenerates(e, kbFacts, generate) ==
  CASE e.op = "ATOM" ->
         IF e.fact \in kbFacts THEN [value |-> TRUE, facts |-> kbFacts]
         ELSE IF generate
                THEN [value |-> TRUE, facts |-> kbFacts \cup {e.fact}]
                ELSE [value |-> FALSE, facts |-> kbFacts]
    [] e.op = "NOT" ->
         LET c == ComputeNotGenerates(e.args[1], kbFacts, generate)
         IN  [value |-> ~c.value, facts |-> c.facts]
    [] e.op = "AND" ->
         LET l == ComputeNotGenerates(e.args[1], kbFacts, generate)
         IN  IF ~l.value THEN l
             ELSE ComputeNotGenerates(e.args[2], l.facts, generate)
    [] e.op = "OR" ->
         LET l == ComputeNotGenerates(e.args[1], kbFacts, generate)
         IN  IF l.value THEN l
             ELSE ComputeNotGenerates(e.args[2], l.facts, generate)
\* compute: the value of the expression and the knowledge base after it.  An
\* ATOM searches for its fact; if the search is empty and the leaf is in
\* generating mode it instantiates the fact and reports true.  NOT inverts
\* its child, which it computes in search-only mode.  AND and OR compute
\* their children left to right and stop at the first false, resp. true.
RECURSIVE compute(_, _, _)
compute(e, kbFacts, generate) ==
  CASE e.op = "ATOM" ->
         IF e.fact \in kbFacts THEN [value |-> TRUE, facts |-> kbFacts]
         ELSE IF generate
                THEN [value |-> TRUE, facts |-> kbFacts \cup {e.fact}]
                ELSE [value |-> FALSE, facts |-> kbFacts]
    [] e.op = "NOT" ->
         LET c == compute(e.args[1], kbFacts, FALSE)
         IN  [value |-> ~c.value, facts |-> c.facts]
    [] e.op = "AND" ->
         LET l == compute(e.args[1], kbFacts, generate)
         IN  IF ~l.value THEN l ELSE compute(e.args[2], l.facts, generate)
    [] e.op = "OR" ->
         LET l == compute(e.args[1], kbFacts, generate)
         IN  IF l.value THEN l ELSE compute(e.args[2], l.facts, generate)

InitExpr ==
  /\ pc = "useRule"
  /\ rule = 1
  /\ keyless \in SUBSET {rule}
  /\ formula \in Formulas
  /\ facts \in SUBSET Facts
  /\ ruleSet = Invalid
  /\ kbTiers = <<>>
  /\ rrel_1 = 0
  /\ nextFromSet = <<>>
  /\ inputStructure = Invalid
  /\ inputNodes = <<>>
  /\ templateParams = <<>>
  /\ sat = [r \in Rules |-> [m \in Models |-> <<>>]]
  /\ argumentList = <<>>
  /\ targetAchieved = FALSE
  /\ rulesQueuesByPriority = <<>>
  /\ checkedRuleList = <<>>
  /\ uncheckedRules = <<>>
  /\ model = Invalid
  /\ isUsed = FALSE
  /\ ruleQueueIndex = 0
  /\ solution = "none"
  /\ setOfRules = 0
  /\ rulesQueuesList = <<>>
  /\ logicExpression = NoExpression
  /\ result = NoResult
  /\ kb0 = [facts |-> facts, sat |-> sat]
  /\ lastCall = NoCall
  /\ ruleSetRead = FALSE
  /\ attempted = {}
  /\ failedLast = {}
  /\ owed = {}
  /\ retried = {}
  /\ anyUsed = FALSE
  /\ attemptLog = <<>>
  /\ succSinceLoad = FALSE
  /\ lastCheck = "none"
  /\ exprBuilt = FALSE
  /\ buildError = FALSE

\* what useRule leaves alone
exprFrame == <<argumentList, targetAchieved, rulesQueuesByPriority,
               checkedRuleList, uncheckedRules, rule, model, ruleQueueIndex,
               solution, sat, lastCall, ruleSetRead, succSinceLoad, lastCheck,
               attempted, failedLast, owed, retried, anyUsed, attemptLog,
               buildError, inputStructure, ruleSet, inputNodes, kbTiers,
               templateParams, kb0, keyless, formula, rrel_1, nextFromSet,
               setOfRules, rulesQueuesList>>

\* Lines 136-139: the rule has no main key element: return false.
UseRuleNoKey ==
  /\ pc = "useRule"
  /\ rule \in keyless
  /\ isUsed' = FALSE
  /\ exprBuilt' = FALSE
  /\ pc' = "returned"
  /\ UNCHANGED <<facts, logicExpression, result, exprFrame>>

\* Lines 141-148: build the expression of the formula under the key element,
\* compute it and return its value.
UseRuleCompute ==
  /\ pc = "useRule"
  /\ rule \notin keyless
  /\ logicExpression' = formula
  /\ LET r == compute(logicExpression', facts, TRUE)
     IN  /\ result' = [value |-> r.value, computed |-> TRUE]
         /\ facts' = r.facts
         /\ isUsed' = r.value
  /\ exprBuilt' = TRUE
  /\ pc' = "returned"
  /\ UNCHANGED exprFrame

NextExpr == UseRuleNoKey \/ UseRuleCompute

ExprSpec == InitExpr /\ [][NextExpr]_vars

\* ------------------------------------ one pass over a working queue alone
\* The while loop of lines 88-117 started on any working queue and any list of
\* earlier failures that hold at most MaxBacklog rules together (rules may
\* repeat), until the loop is left: by the break of line 101 or because the
\* queue is empty.
PassQueues ==
  {qc \in SeqsUpTo(Rules, MaxBacklog) \X SeqsUpTo(Rules, MaxBacklog) :
     Len(qc[1]) + Len(qc[2]) <= MaxBacklog}

InitPass ==
  /\ pc = "while"
  /\ \E qc \in PassQueues :
       /\ uncheckedRules = qc[1]
       /\ checkedRuleList = qc[2]
  /\ rulesQueuesByPriority = <<uncheckedRules>>
  /\ ruleQueueIndex = 0
  /\ keyless \in SUBSET Range(uncheckedRules)
  /\ facts \in SUBSET Facts
  /\ templateParams \in {[i \in 1..k |-> i] : k \in 0..NumFacts}
  /\ sat = [r \in Rules |-> [m \in Models |-> <<>>]]
  /\ ruleSet = "rule_set"
  /\ kbTiers = <<>>
  /\ formula = NoExpression
  /\ rrel_1 = 0
  /\ nextFromSet = <<>>
  /\ inputStructure = Invalid
  /\ inputNodes = <<>>
  /\ argumentList = <<>>
  /\ targetAchieved = FALSE
  /\ rule = 0
  /\ model = knowledge_base_IMS
  /\ isUsed = FALSE
  /\ solution = "none"
  /\ setOfRules = 0
  /\ rulesQueuesList = <<>>
  /\ logicExpression = NoExpression
  /\ result = NoResult
  /\ kb0 = [facts |-> facts, sat |-> sat]
  /\ lastCall = NoCall
  /\ ruleSetRead = TRUE
  /\ attempted = {}
  /\ failedLast = {}
  /\ owed = {}
  /\ retried = {}
  /\ anyUsed = FALSE
  /\ attemptLog = <<>>
  /\ succSinceLoad = FALSE
  /\ lastCheck = "false"
  /\ exprBuilt = FALSE
  /\ buildError = FALSE

NextPass ==
  \/ WhileExit
  \/ TakeRule
  \/ UseRule
  \/ RecordSatisfiable
  \/ RecheckAchieved
  \/ RecheckNotAchieved
  \/ RecordUnsatisfiable
  \/ PopRule

\* The loop is sequential code: a step that can be taken is taken.
FairPassSpec == InitPass /\ [][NextPass]_vars /\ WF_vars(NextPass)

\* ============================================================ claims

\* C1: whenever a rule is used successfully and the following target check
\* fails, the next tier whose queue is loaded and scanned from its front is
\* tier 0.
C1_NextScanAtTierZero ==
  [][(pc = "for" /\ pc' = "while" /\ succSinceLoad) => ruleQueueIndex = 0]_vars

\* C2: every applyInference run terminates by returning a Solution, whatever
\* the outcomes of useRule and isTargetAchieved are.
C2_RunTerminates == <>(pc = "done")

\* C3 as stated: a run whose argument list is empty (the input structure is
\* invalid, or valid without nodes) returns failure, with no rule evaluated
\* and no satisfiability record touched.
C3_EmptyArgumentListFails ==
  (pc # "start" /\ argumentList = <<>>) =>
    /\ attempted = {}
    /\ lastCall.op = "none"
    /\ pc = "done" => solution = "failure"

\* C3 amended: a run whose input structure is valid and has no nodes returns
\* failure at once: no target check, no rule evaluated, no satisfiability
\* record touched, the knowledge base as it was.
C3_EmptyInputStructureFails ==
  (pc # "start" /\ inputStructure # Invalid /\ argumentList = <<>>) =>
    /\ pc = "done"
    /\ solution = "failure"
    /\ lastCheck = "none"
    /\ attempted = {}
    /\ lastCall.op = "none"
    /\ facts = kb0.facts /\ sat = kb0.sat

C3_Witness ==
  /\ pc = "done"
  /\ inputStructure # Invalid
  /\ argumentList = <<>>
  /\ solution = "failure"
  /\ ruleSet # Invalid /\ kbTiers # <<>>

\* C4: when the initial target check succeeds, the run returns success and
\* leaves the knowledge base as it was: no fact generated, no satisfiability
\* record cleared or written, the rule set not read, no rule attempted.
InitialCheckSucceeded ==
  lastCheck # "none" /\ isTargetAchieved(templateParams, kb0.facts)

C4_AlreadyAchieved ==
  InitialCheckSucceeded =>
    /\ pc \in {"ret", "done"}
    /\ pc = "done" => solution = "success"
    /\ facts = kb0.facts /\ sat = kb0.sat
    /\ lastCall.op = "none"
    /\ ~ruleSetRead /\ rulesQueuesByPriority = <<>>
    /\ attempted = {}

C4_Witness ==
  /\ InitialCheckSucceeded
  /\ pc = "done"
  /\ solution = "success"
  /\ ruleSet # Invalid /\ Flatten(kbTiers) # <<>>

C6_AtMostOneRecord ==
  \A r \in Rules, m \in Models : Len(sat[r][m]) <= 1

C6_Witness ==
  /\ pc = "pop"
  /\ rule \in retried
  /\ Len(kb0.sat[rule][model]) = 1
  /\ Len(sat[rule][model]) = 1

\* C7: after addSatisfiabilityInformation(rule, model, v) the pair holds
\* exactly one record and it encodes v, however many it held before; adding
\* again with the same arguments, or clearing again, changes nothing.
C7_AddAndClearIdempotent ==
  LET r == lastCall.rule
      m == lastCall.model
      v == lastCall.isSatisfiable
  IN  /\ lastCall.op = "add" =>
           /\ sat[r][m] = <<v>>
           /\ addSatisfiabilityInformation(sat, r, m, v) = sat
      /\ lastCall.op = "clear" =>
           /\ sat[r][m] = <<>>
           /\ clearSatisfiabilityInformation(sat, r, m) = sat

C7_Witness ==
  /\ lastCall.op = "add"
  /\ Len(kb0.sat[lastCall.rule][lastCall.model]) >= 2
  /\ \A r \in Rules, m \in Models :
       (r # lastCall.rule \/ m # lastCall.model) => sat[r][m] = kb0.sat[r][m]

\* C8: no rule of tier k+1 is attempted until every rule of tier k has been
\* attempted at least once.
C8_TierOrder ==
  \A k \in 1..(Len(kbTiers) - 1) :
    (Range(kbTiers[k + 1]) \cap attempted # {}) => Range(kbTiers[k]) \subseteq attempted

C8_Witness ==
  /\ Len(kbTiers) = 2
  /\ kbTiers[1] # <<>>
  /\ Range(kbTiers[2]) \cap attempted # {}

\* C9: if the initial target check fails, the tier queues are built and every
\* useRule call returns false, the rules are attempted exactly once each, tier
\* after tier in ascending order and in queue order within a tier, each ends
\* with the single record "unsatisfiable" for the model, and the run returns
\* failure.
C9_AllRulesFail ==
  (pc = "done" /\ lastCheck = "false" /\ ruleSet # Invalid /\ ~buildError
     /\ ~anyUsed) =>
    /\ attemptLog = Flatten(kbTiers)
    /\ \A r \in Range(Flatten(kbTiers)) : sat[r][model] = <<FALSE>>
    /\ solution = "failure"

C9_Witness ==
  /\ pc = "done"
  /\ ~anyUsed
  /\ Len(kbTiers) = 2
  /\ Len(attemptLog) = 2

\* C10: once a target check made after a successful rule application has
\* returned true, the rule is recorded satisfiable, no rule is attempted, no
\* record is cleared or written, no fact is generated, and the run returns
\* success; and success is returned only if the last target check was true.
AchievedByRule == lastCheck = "true" /\ attempted # {}

C10_StopOnTarget ==
  /\ [](AchievedByRule =>
          /\ sat[rule][model] = <<TRUE>>
          /\ pc \in {"for", "ret", "done"}
          /\ pc = "done" => solution = "success")
  /\ []((pc = "done" /\ solution = "success") => lastCheck = "true")
  /\ [][AchievedByRule =>
          /\ sat' = sat
          /\ facts' = facts
          /\ lastCall' = lastCall
          /\ attemptVars' = attemptVars]_vars

C10_Witness ==
  /\ AchievedByRule
  /\ pc = "done"
  /\ solution = "success"
  /\ uncheckedRules # <<>>

\* C11: when the initial target check has failed and the rule set handle is
\* invalid, the run returns failure at once: the construction of the tier
\* queues is never reached, no rule is attempted, no satisfiability record is
\* cleared or written; and a valid rule set that yields no tier gives the same
\* failure with no rule attempted.
C11_NoRuleSetFails ==
  /\ (lastCheck = "false" /\ ruleSet = Invalid) =>
        /\ pc \in {"ruleset", "done"}
        /\ pc = "done" => solution = "failure"
        /\ rulesQueuesByPriority = <<>>
        /\ ~buildError
        /\ attempted = {}
        /\ lastCall.op = "none"
        /\ sat = kb0.sat
        /\ facts = kb0.facts
  /\ (lastCheck = "false" /\ ruleSet # Invalid /\ kbTiers = <<>>) =>
        /\ pc \in {"ruleset", "build", "done"}
        /\ pc = "done" => solution = "failure"
        /\ attempted = {}
        /\ lastCall.op = "none"
        /\ sat = kb0.sat
        /\ facts = kb0.facts

C11_Witness ==
  /\ pc = "done"
  /\ lastCheck = "false"
  /\ ruleSet = Invalid
  /\ solution = "failure"
  /\ \E r \in Rules, m \in Models : kb0.sat[r][m] # <<>>

\* The tier reached from t after n steps along the next relation (0: the
\* chain has ended).
RECURSIVE TierAfter(_, _)
TierAfter(t, n) ==
  IF t = 0 \/ n = 0 THEN t ELSE TierAfter(nextFromSet[t], n - 1)

\* The next relation leads back to a tier already visited.
CyclicChain == rrel_1 # 0 /\ TierAfter(rrel_1, Len(kbTiers)) # 0

MalformedChain == rrel_1 = 0 \/ CyclicChain

\* C12: createRulesQueuesListByPriority never returns a list for a malformed
\* priority chain (the tier marked rrel_1 is missing, or the next relation is
\* cyclic): such a call ends with a structural error.
C12_MalformedChainFails == MalformedChain => pc # "chain_returned"

\* C13: whenever the construction of the tier queues raises a structural
\* error during applyInference, the error is caught inside applyInference and
\* the run returns failure: no error leaves the function, no rule is
\* attempted, no satisfiability record is cleared or written.
C13_BuildErrorCaught ==
  buildError =>
    /\ pc = "done"
    /\ solution = "failure"
    /\ rulesQueuesByPriority = <<>>
    /\ attempted = {}
    /\ lastCall.op = "none"
    /\ sat = kb0.sat
    /\ facts = kb0.facts

C13_Witness ==
  /\ buildError
  /\ pc = "done"
  /\ Len(kbTiers) = 2
  /\ kbTiers[1] # <<>>
  /\ \E r \in Rules, m \in Models : kb0.sat[r][m] # <<>>

\* The facts of the ATOM leaves of e that are under no NOT node.
RECURSIVE PositiveAtoms(_)
PositiveAtoms(e) ==
  CASE e.op = "ATOM" -> {e.fact}
    [] e.op = "NOT" -> {}
    [] OTHER -> PositiveAtoms(e.args[1]) \cup PositiveAtoms(e.args[2])

\* C14: negation never generates facts: computing NOT(atom) when the search
\* for the atom finds nothing yields true and leaves the knowledge base as it
\* was, and the facts a useRule call adds are all facts of ATOM leaves that are
\* outside every negation.
C14_NegationNeverGenerates ==
  pc = "returned" =>
    /\ kb0.facts \subseteq facts
    /\ (facts \ kb0.facts) \subseteq PositiveAtoms(formula)
    /\ \A f \in Facts \ kb0.facts :
         formula = Not(Atom(f)) /\ rule \notin keyless =>
           (facts = kb0.facts /\ isUsed)

C14_Witness ==
  /\ pc = "returned"
  /\ formula = And(Not(Atom(1)), Atom(2))
  /\ exprBuilt
  /\ kb0.facts = {}
  /\ facts = {2}
  /\ isUsed

\* C15: isTargetAchieved returns true iff at least one binding set the
\* generator enumerates yields a non-empty search result (false when it
\* enumerates none), and the call leaves the knowledge base as it was.
C15_TargetCheck ==
  [][(pc \in {"check0", "recheck"}) =>
       /\ targetAchieved' =
            (\E i \in 1..Len(templateParams) :
               searchTemplate(templateParams[i], facts) # {})
       /\ facts' = facts
       /\ sat' = sat]_vars

C15_Witness ==
  /\ pc = "ret"
  /\ attempted = {}
  /\ lastCheck = "true"
  /\ Len(templateParams) = 2
  /\ searchTemplate(templateParams[1], facts) = {}
  /\ searchTemplate(templateParams[2], facts) # {}

\* C16: for a rule that has no main key element useRule returns false
\* without building or computing an expression and without generating a fact;
\* applyInference then records the rule unsatisfiable for the model, remembers
\* it as failed and goes on with the next rule of the same queue.
C16_KeylessRuleFails ==
  /\ [][(pc = "use" /\ rule \in keyless) =>
          /\ ~isUsed'
          /\ ~exprBuilt'
          /\ facts' = facts
          /\ pc' = "unused"]_vars
  /\ [][(pc = "unused" /\ rule \in keyless) =>
          /\ sat'[rule][model] = <<FALSE>>
          /\ checkedRuleList' = Append(checkedRuleList, rule)
          /\ pc' = "pop"]_vars
  /\ [][(pc = "pop" /\ rule \in keyless) =>
          /\ uncheckedRules' = Tail(uncheckedRules)
          /\ ruleQueueIndex' = ruleQueueIndex
          /\ pc' = "while"]_vars

C16_Witness ==
  /\ pc = "use"
  /\ rule \notin keyless
  /\ keyless # {}
  /\ keyless \subseteq failedLast
  /\ ~exprBuilt
  /\ ~isUsed
  /\ facts = kb0.facts
  /\ \A r \in keyless : sat[r][model] = <<FALSE>> /\ kb0.sat[r][model] = <<TRUE>>
  /\ checkedRuleList = <<1>>
  /\ rulesQueuesByPriority = <<<<1, 2>>>>

\* The model of a run: the input structure if it is valid, the default
\* whole-base marker otherwise.
RunModel ==
  IF inputStructure # Invalid THEN inputStructure ELSE knowledge_base_IMS

\* C17: when useRule is invoked for a rule, no satisfiability record exists
\* for (rule, model); when applyInference has returned, every rule it
\* attempted has exactly one record for (rule, model), whose verdict is the
\* outcome of the most recent attempt of the rule; model is the model of the
\* run.
C17_RecordsFollowAttempts ==
  /\ pc = "use" => (model = RunModel /\ sat[rule][model] = <<>>)
  /\ pc = "done" =>
       \A r \in attempted :
         model = RunModel /\ sat[r][model] = <<r \notin failedLast>>

C17_Witness ==
  /\ pc = "done"
  /\ attempted = Rules
  /\ retried = {1}
  /\ failedLast = {2}
  /\ sat[1][model] = <<TRUE>>
  /\ sat[2][model] = <<FALSE>>
  /\ kb0.sat[1][model] = <<FALSE>>

\* The position is inside the while loop of lines 88-117.
InPass == pc \in {"while", "use", "used", "recheck", "unused", "pop"}

\* The rules in the working queue and in the failed list together, and the
\* rules in the working queue, the rule about to be popped (line 116) not
\* counted.
PassTotal ==
  (Len(uncheckedRules) + Len(checkedRuleList)) - (IF pc = "pop" THEN 1 ELSE 0)
PassRemaining == Len(uncheckedRules) - (IF pc = "pop" THEN 1 ELSE 0)

\* C18: a single pass over one tier's working queue always terminates: for any
\* finite queue, any finite list of earlier failures and any useRule
\* outcomes the while loop is left.  No step of the pass adds a rule to the
\* queue and the failed list together, each success that does not end the pass
\* strictly decreases their number, and each failure leaves it and strictly
\* decreases the number of rules in the queue.
C18_PassTerminates ==
  /\ <>(pc = "for")
  /\ [][(InPass /\ InPass') =>
          /\ PassTotal' <= PassTotal
          /\ PassTotal' = PassTotal => PassRemaining' <= PassRemaining
          /\ pc = "recheck" => PassTotal' < PassTotal
          /\ pc = "unused" =>
               (PassTotal' = PassTotal /\ PassRemaining' < PassRemaining)]_vars

C18_Witness ==
  /\ pc = "for"
  /\ ~targetAchieved
  /\ retried # {}
  /\ Len(rulesQueuesByPriority[1]) = 2
  /\ uncheckedRules = <<>>
  /\ checkedRuleList # <<>>

\* The rules whose most recent attempt succeeded.
Succeeded == attempted \ failedLast

\* C19: with a rule set of exactly one tier, a rule that was applied
\* successfully is never attempted again in the same run (so each rule
\* succeeds at most once), tier 0 is never loaded again after a success, and
\* the run terminates.
C19_SingleTierRun ==
  /\ <>(pc = "done")
  /\ [][(pc = "while" /\ pc' = "use") => rule' \notin Succeeded]_vars
  /\ [][(pc = "use" /\ isUsed') => rule \notin Succeeded]_vars
  /\ [][(pc = "for" /\ pc' = "while") => ~anyUsed]_vars

C19_Witness ==
  /\ pc = "done"
  /\ Len(kbTiers) = 1
  /\ solution = "failure"
  /\ Succeeded # {}
  /\ retried # {}
  /\ failedLast # {}

\* The rules a record of the run may concern: those useRule was called for,
\* and the rule taken from the queue whose call is next.
Taken == attempted \cup (IF pc = "use" THEN {rule} ELSE {})

\* C20: a run with model M never creates or erases a satisfiability record of
\* a pair (rule, M') with M' # M, nor of a rule it does not attempt: the
\* records earlier runs left for such pairs are as they were, at every step
\* and when the run returns.
C20_OtherRecordsUntouched ==
  \A r \in Rules, m \in Models :
    (m # RunModel \/ r \notin Taken) => sat[r][m] = kb0.sat[r][m]

C20_Witness ==
  /\ pc = "done"
  /\ inputStructure # Invalid
  /\ attempted = {1}
  /\ sat[1][model] = <<FALSE>>
  /\ sat[1][knowledge_base_IMS] = <<TRUE>>
  /\ sat[2][model] = <<TRUE>>

====
